---- MODULE Spec2Model ----
(***************************************************************************)
(* Model of functions/index.js: the Ingram Micro access-token cache, the   *)
(* getPriceAndAvailability handler that uses it, and the Stripe checkout / *)
(* webhook handlers that write the Firestore "orders" collection.          *)
(*                                                                         *)
(* Each HTTP handler is cut at its awaits: the synchronous prefix of a     *)
(* handler is one action, and every callback of an external call (token    *)
(* exchange, distributor call, Stripe call, Firestore write) is another.   *)
(***************************************************************************)
EXTENDS Integers, Sequences, FiniteSets, TLC

VARIABLES
    now,            \* Date.now(), in milliseconds
    cachedToken,    \* module-level cachedToken (NoToken models null)
    tokenExpiry,    \* module-level tokenExpiry
    tokenDeadline,  \* when the upstream lets the cached token expire
    req,            \* in-flight searchProducts and getPriceAndAvailability requests
    stripeKey,      \* process.env.STRIPE_SECRET_KEY is set
    orders,         \* Firestore collection 'orders', in insertion order
    dlv,            \* deliveries to stripeWebhook
    chk,            \* createCheckoutSession requests
    storeFailures,  \* Firestore write failures the run has seen so far
    sessions,       \* Checkout Sessions the payment processor holds
    ingramEvents,   \* Firestore collection 'ingram_events', in insertion order
    hook            \* requests to ingramWebhook

vars == <<now, cachedToken, tokenExpiry, tokenDeadline, req, stripeKey, orders, dlv, chk, storeFailures,
         sessions, ingramEvents, hook>>

gatewayVars == <<now, cachedToken, tokenExpiry, tokenDeadline, req>>
paymentVars == <<stripeKey, orders, dlv, chk, storeFailures, sessions>>
ingramVars == <<ingramEvents, hook>>

----------------------------------------------------------------------------
(* Bounds of the model *)

MaxRequests == 2        \* concurrent getPriceAndAvailability request slots
MaxTicks == 2           \* clock ticks before time stops advancing
MaxDeliveries == 2      \* stripeWebhook delivery slots
MaxStoreFailures == 2   \* Firestore writes that may fail in one run
MaxHooks == 2           \* concurrent ingramWebhook request slots
MaxIngramEvents == 2    \* documents the ingram_events collection may reach

TickMs == (55 * 60 * 1000) \div 2    \* clock granularity: 2 ticks = 55 minutes

----------------------------------------------------------------------------
(* TOKEN CACHE and getPriceAndAvailability *)

NoToken == "null"
Tokens == {"tokA", "tokB"}      \* access_token values the upstream may issue

TokenTtlMs == 55 * 60 * 1000
\* line 39: the token is taken to last 60 minutes and is cached for 55
AssumedLifetimeMs == 60 * 60 * 1000
SafetyMarginMs == AssumedLifetimeMs - TokenTtlMs
\* expires_in values the upstream may declare, in milliseconds
ValidityWindows == {AssumedLifetimeMs, 30 * 60 * 1000}
MaxSkus == 50

Requests == 1..MaxRequests
Methods == {"GET", "POST"}

\* req.body.skus: either not an array, or an array of the given length
SkuLens == {0, 1, MaxSkus, MaxSkus + 1}
SkusInputs == {[isArray |-> FALSE, items |-> << >>]}
                \cup {[isArray |-> TRUE, items |-> [i \in 1..n |-> "SKU"]] : n \in SkuLens}

\* req.query.pageNumber and req.query.pageSize: absent, or a string of
\* characters (no hexadecimal or whitespace prefixes)
Absent == [present |-> FALSE, text |-> << >>]
Text(chars) == [present |-> TRUE, text |-> chars]
PageSizeTexts == {Absent, Text(<<"a", "b", "c">>), Text(<<"0">>), Text(<<"-", "5">>),
                  Text(<<"1">>), Text(<<"2", "4">>), Text(<<"1", "0", "0">>),
                  Text(<<"1", "0", "1">>), Text(<<"5", "0", "p", "x">>)}
PageNumberTexts == {Absent, Text(<<"x">>), Text(<<"0">>), Text(<<"-", "2">>), Text(<<"3">>)}
DefaultQuery == [pageNumber |-> Absent, pageSize |-> Absent]
Queries == {[pageNumber |-> Absent, pageSize |-> t] : t \in PageSizeTexts}
              \cup {[pageNumber |-> t, pageSize |-> Absent] : t \in PageNumberTexts}
              \cup {[pageNumber |-> Text(<<"-", "2">>), pageSize |-> Text(<<"1", "0", "1">>)]}

NoOpts == [pageNumber |-> 0, pageSize |-> 0]

IdleReq == [pc |-> "idle", kind |-> "-", method |-> "-",
            skus |-> [isArray |-> FALSE, items |-> << >>],
            query |-> DefaultQuery, opts |-> NoOpts,
            status |-> 0, token |-> NoToken, fromCache |-> FALSE,
            exchanged |-> FALSE, distCalled |-> FALSE]

DigitVal == [c \in {"0", "1", "2", "3", "4", "5", "6", "7", "8", "9"} |->
                CASE c = "0" -> 0 [] c = "1" -> 1 [] c = "2" -> 2 [] c = "3" -> 3
                  [] c = "4" -> 4 [] c = "5" -> 5 [] c = "6" -> 6 [] c = "7" -> 7
                  [] c = "8" -> 8 [] c = "9" -> 9]

\* the leading decimal digits of chars from position i on, as a number added
\* to acc; seen tells whether a digit was read at all
RECURSIVE Digits(_, _, _, _)
Digits(chars, i, acc, seen) ==
    IF i > Len(chars) \/ chars[i] \notin DOMAIN DigitVal
    THEN [nan |-> ~seen, val |-> acc]
    ELSE Digits(chars, i + 1, acc * 10 + DigitVal[chars[i]], TRUE)

\* parseInt of lines 88-89: an optional sign, then digits up to the first
\* other character; NaN for undefined and for text without leading digits
ParseInt(v) ==
    IF ~v.present \/ Len(v.text) = 0 THEN [nan |-> TRUE, val |-> 0]
    ELSE IF v.text[1] = "-"
    THEN LET n == Digits(v.text, 2, 0, FALSE) IN [nan |-> n.nan, val |-> 0 - n.val]
    ELSE IF v.text[1] = "+" THEN Digits(v.text, 2, 0, FALSE)
    ELSE Digits(v.text, 1, 0, FALSE)

\* x || dflt on a number: NaN and 0 are falsy
OrDefault(n, dflt) == IF n.nan \/ n.val = 0 THEN dflt ELSE n.val

Min(a, b) == IF a < b THEN a ELSE b

DefaultPageNumber == 1
DefaultPageSize == 24
MaxPageSize == 100

\* lines 85-90: the paging options sent upstream
SearchOpts(query) ==
    [pageNumber |-> OrDefault(ParseInt(query.pageNumber), DefaultPageNumber),
     pageSize |-> Min(OrDefault(ParseInt(query.pageSize), DefaultPageSize), MaxPageSize)]

\* lines 84-100 and 133-147: the handler, holding a token, issues its
\* distributor call
IssueDist(rec, tok) ==
    [rec EXCEPT !.pc = "dist", !.token = tok, !.distCalled = TRUE,
                !.opts = IF rec.kind = "search" THEN SearchOpts(rec.query) ELSE NoOpts]

\* CacheHit with the comparison the wrong way round
CacheHitReversed(tok, expiry, t) == tok # NoToken /\ t > expiry

\* CacheHit with the expiry instant itself still counted as valid
CacheHitInclusive(tok, expiry, t) == tok # NoToken /\ t <= expiry

\* line 25: cachedToken && Date.now() < tokenExpiry
CacheHit(tok, expiry, t) == tok # NoToken /\ t < expiry

\* SkusStatus with the upper limit off by one
SkusStatusOffByOne(skus) ==
    IF ~skus.isArray \/ Len(skus.items) = 0 THEN 400
    ELSE IF Len(skus.items) > MaxSkus + 1 THEN 400
    ELSE 0

\* lines 123-128: the two validation guards; 0 means the input passes
SkusStatus(skus) ==
    IF ~skus.isArray \/ Len(skus.items) = 0 THEN 400
    ELSE IF Len(skus.items) > MaxSkus THEN 400
    ELSE 0

\* lines 118-131 and 24-31: the handler up to its first await; a request
\* takes the lowest free slot
PriceAndAvailability(r, method, skus) ==
    /\ req[r].pc = "idle"
    /\ \A q \in 1..(r - 1) : req[q].pc # "idle"
    /\ LET base == [IdleReq EXCEPT !.kind = "pa", !.method = method, !.skus = skus] IN
       IF method # "POST"
       THEN req' = [req EXCEPT ![r] = [base EXCEPT !.pc = "done", !.status = 405]]
       ELSE IF SkusStatus(skus) # 0
       THEN req' = [req EXCEPT ![r] = [base EXCEPT !.pc = "done", !.status = SkusStatus(skus)]]
       ELSE IF CacheHit(cachedToken, tokenExpiry, now)
       THEN req' = [req EXCEPT ![r] = IssueDist([base EXCEPT !.fromCache = TRUE], cachedToken)]
       ELSE req' = [req EXCEPT ![r] = [base EXCEPT !.pc = "token", !.exchanged = TRUE]]
    /\ UNCHANGED <<now, cachedToken, tokenExpiry, tokenDeadline, paymentVars, ingramVars>>

\* lines 77-100 and 24-31: searchProducts up to its first await
SearchProducts(r, method, query) ==
    /\ req[r].pc = "idle"
    /\ \A q \in 1..(r - 1) : req[q].pc # "idle"
    /\ LET base == [IdleReq EXCEPT !.kind = "search", !.method = method, !.query = query] IN
       IF method # "GET"
       THEN req' = [req EXCEPT ![r] = [base EXCEPT !.pc = "done", !.status = 405]]
       ELSE IF CacheHit(cachedToken, tokenExpiry, now)
       THEN req' = [req EXCEPT ![r] = IssueDist([base EXCEPT !.fromCache = TRUE], cachedToken)]
       ELSE req' = [req EXCEPT ![r] = [base EXCEPT !.pc = "token", !.exchanged = TRUE]]
    /\ UNCHANGED <<now, cachedToken, tokenExpiry, tokenDeadline, paymentVars, ingramVars>>

\* ExchangeOk that stores the token but leaves tokenExpiry as it was
ExchangeOkStaleExpiry(r, tok, expiresIn) ==
    /\ req[r].pc = "token"
    /\ cachedToken' = tok
    /\ tokenDeadline' = now + expiresIn
    /\ req' = [req EXCEPT ![r] = IssueDist(req[r], tok)]
    /\ UNCHANGED <<now, tokenExpiry, paymentVars, ingramVars>>

\* lines 37-41 then 82-100 or 131-147: the exchange callback without err,
\* then the handler resumes and issues its distributor call. The upstream answers
\* with access_token and expires_in; the callback reads access_token only.
ExchangeOk(r, tok, expiresIn) ==
    /\ req[r].pc = "token"
    /\ cachedToken' = tok
    /\ tokenExpiry' = now + TokenTtlMs
    /\ tokenDeadline' = now + expiresIn
    /\ req' = [req EXCEPT ![r] = IssueDist(req[r], tok)]
    /\ UNCHANGED <<now, paymentVars, ingramVars>>

\* ExchangeErr that drops the cached token on a failed exchange
ExchangeErrClearsCache(r) ==
    /\ req[r].pc = "token"
    /\ cachedToken' = NoToken
    /\ req' = [req EXCEPT ![r].pc = "done", ![r].status = 500]
    /\ UNCHANGED <<now, tokenExpiry, tokenDeadline, paymentVars, ingramVars>>

\* ExchangeErr whose handler goes on to the distributor call without a token
ExchangeErrProceeds(r) ==
    /\ req[r].pc = "token"
    /\ req' = [req EXCEPT ![r] = IssueDist(req[r], NoToken)]
    /\ UNCHANGED <<now, cachedToken, tokenExpiry, tokenDeadline, paymentVars, ingramVars>>

\* lines 33-36 then 103-110 or 150-153: the exchange callback with err
ExchangeErr(r) ==
    /\ req[r].pc = "token"
    /\ req' = [req EXCEPT ![r].pc = "done", ![r].status = 500]
    /\ UNCHANGED <<now, cachedToken, tokenExpiry, tokenDeadline, paymentVars, ingramVars>>

\* lines 98-102 and 145-149: the distributor callback without err; the
\* client that held the token is done with
DistOk(r) ==
    /\ req[r].pc = "dist"
    /\ req' = [req EXCEPT ![r].pc = "done", ![r].status = 200, ![r].token = NoToken]
    /\ UNCHANGED <<now, cachedToken, tokenExpiry, tokenDeadline, paymentVars, ingramVars>>

\* lines 98, 103-110, 145 and 150-153: the distributor callback with err
DistErr(r) ==
    /\ req[r].pc = "dist"
    /\ req' = [req EXCEPT ![r].pc = "done", ![r].status = 500, ![r].token = NoToken]
    /\ UNCHANGED <<now, cachedToken, tokenExpiry, tokenDeadline, paymentVars, ingramVars>>

\* the response has been sent; the slot serves the next request
Respond(r) ==
    /\ req[r].pc = "done"
    /\ req' = [req EXCEPT ![r] = IdleReq]
    /\ UNCHANGED <<now, cachedToken, tokenExpiry, tokenDeadline, paymentVars, ingramVars>>

\* Date.now() advances
Tick ==
    /\ now < MaxTicks * TickMs
    /\ now' = now + TickMs
    /\ UNCHANGED <<cachedToken, tokenExpiry, tokenDeadline, req, paymentVars, ingramVars>>

----------------------------------------------------------------------------
(* JS numbers and JSON text *)

\* A JS number is named by its shortest decimal text, held in thousandths:
\* 19995 is the number 19.995 and Whole(2) is the number 2
Whole(n) == n * 1000

MantissaBits == 53      \* significand width of an IEEE-754 binary64
ExpansionBits == 66     \* fractional binary digits developed before rounding

\* the binary digits of n, most significant first; none for 0
RECURSIVE IntBits(_)
IntBits(n) == IF n = 0 THEN << >> ELSE Append(IntBits(n \div 2), n % 2)

\* the first k binary digits of r / 1000 after the point (r < 1000, k > 0),
\* and the remainder left over: long division, the first half of the digits
\* and then the rest
RECURSIVE Expand(_, _)
Expand(r, k) ==
    IF k = 1
    THEN [bits |-> <<IF 2 * r >= 1000 THEN 1 ELSE 0>>,
          rem |-> IF 2 * r >= 1000 THEN 2 * r - 1000 ELSE 2 * r]
    ELSE LET first == Expand(r, k \div 2)
             rest == Expand(first.rem, k - k \div 2)
         IN [bits |-> first.bits \o rest.bits, rem |-> rest.rem]

Zeros(k) == [i \in 1..k |-> 0]
PadTo(bits, n) == Zeros(n - Len(bits)) \o bits
Shl(bits, k) == bits \o Zeros(k)

\* the position of the last 0; 0 if there is none
LastZero(bits) ==
    CHOOSE i \in 0..Len(bits) :
        /\ i > 0 => bits[i] = 0
        /\ \A j \in (i + 1)..Len(bits) : bits[j] = 1

\* bits + 1
Inc(bits) ==
    LET i == LastZero(bits)
    IN SubSeq(bits, 1, i - 1) \o <<1>> \o Zeros(Len(bits) - i)

\* the carry out of digit i + 1 in a + b: some digit j to the right makes a
\* carry and every digit between passes it on
CarryInto(a, b, i) ==
    IF \E j \in (i + 1)..Len(a) :
            /\ a[j] + b[j] = 2
            /\ \A k \in (i + 1)..(j - 1) : a[k] + b[k] >= 1
    THEN 1 ELSE 0

\* a + b for digit strings of one length; the sum is one digit longer
AddBits(a, b) ==
    [i \in 1..(Len(a) + 1) |->
        IF i = 1 THEN CarryInto(a, b, 0)
        ELSE (a[i - 1] + b[i - 1] + CarryInto(a, b, i - 1)) % 2]

LeadingZeros(bits) ==
    CHOOSE z \in 0..Len(bits) :
        /\ z < Len(bits) => bits[z + 1] = 1
        /\ \A j \in 1..z : bits[j] = 0

\* round-to-nearest, ties-to-even, of the digit string bits (first digit 1,
\* of weight 2^e) to MantissaBits digits; sticky tells that nonzero digits
\* follow the string
RoundToDouble(bits, e, sticky) ==
    LET full == IF Len(bits) < MantissaBits
                THEN bits \o Zeros(MantissaBits - Len(bits)) ELSE bits
        mant == SubSeq(full, 1, MantissaBits)
        guard == IF Len(full) > MantissaBits THEN full[MantissaBits + 1] ELSE 0
        more == sticky \/ \E i \in (MantissaBits + 2)..Len(full) : full[i] = 1
        up == guard = 1 /\ (more \/ mant[MantissaBits] = 1)
        inc == Inc(mant)
    IN IF ~up THEN [m |-> mant, e |-> e]
       ELSE IF Len(inc) > MantissaBits
       THEN [m |-> SubSeq(inc, 1, MantissaBits), e |-> e + 1]
       ELSE [m |-> inc, e |-> e]

DoubleZero == [m |-> Zeros(MantissaBits), e |-> 0]

\* the binary64 nearest to the decimal number n (in thousandths, n >= 0):
\* what the body parser and JSON.parse make of a decimal literal
ToDouble(n) ==
    IF n = 0 THEN DoubleZero
    ELSE LET int == IntBits(n \div 1000)
             frac == Expand(n % 1000, ExpansionBits)
             all == int \o frac.bits
             z == LeadingZeros(all)
         IN RoundToDouble(SubSeq(all, z + 1, Len(all)), Len(int) - 1 - z, frac.rem # 0)

\* line 235: x * 100 in binary64 (100 = 64 + 32 + 4)
Times100(x) ==
    IF x = DoubleZero THEN DoubleZero
    ELSE LET w == MantissaBits + 7
             low == AddBits(PadTo(Shl(x.m, 5), w - 1), PadTo(Shl(x.m, 2), w - 1))
             sum == AddBits(PadTo(Shl(x.m, 6), w), low)
             z == LeadingZeros(sum)
             prod == SubSeq(sum, z + 1, Len(sum))
         IN RoundToDouble(prod, x.e + Len(prod) - MantissaBits, FALSE)

\* the number whose binary digits are the first i digits of bits (i < 31)
RECURSIVE BitsToInt(_, _)
BitsToInt(bits, i) == IF i = 0 THEN 0 ELSE 2 * BitsToInt(bits, i - 1) + bits[i]

\* line 235: Math.round of a non-negative binary64 below 2^31, the integer
\* nearest to x with halves going up
MathRound(x) ==
    IF x.e < -1 THEN 0
    ELSE BitsToInt(x.m, x.e + 1) + x.m[x.e + 2]

\* line 235: Math.round(item.price * 100)
UnitAmount(price) == MathRound(Times100(ToDouble(price)))

\* JSON text is a sequence of characters. The texts of this model are arrays
\* of objects whose members are strings and non-negative numbers with at
\* most three decimals, over an alphabet without control characters.
Undefined == "undefined"
Quote == "\""
Backslash == "\\"

KeySku == <<"s", "k", "u">>
KeyQty == <<"q", "t", "y">>
KeyPrice == <<"p", "r", "i", "c", "e">>
KeyName == <<"n", "a", "m", "e">>
KeyVendor == <<"v", "e", "n", "d", "o", "r">>

DigitChar == <<"0", "1", "2", "3", "4", "5", "6", "7", "8", "9">>

\* the decimal digits of n
RECURSIVE NatText(_)
NatText(n) ==
    IF n < 10 THEN <<DigitChar[n + 1]>>
    ELSE Append(NatText(n \div 10), DigitChar[(n % 10) + 1])

\* the digits after the point of f thousandths (0 < f < 1000), without
\* trailing zeros
FracText(f) ==
    IF f % 100 = 0 THEN <<DigitChar[f \div 100 + 1]>>
    ELSE IF f % 10 = 0 THEN <<DigitChar[f \div 100 + 1], DigitChar[((f \div 10) % 10) + 1]>>
    ELSE <<DigitChar[f \div 100 + 1], DigitChar[((f \div 10) % 10) + 1], DigitChar[(f % 10) + 1]>>

\* JSON.stringify of a number: its shortest decimal text
NumberText(n) ==
    NatText(n \div 1000) \o (IF n % 1000 = 0 THEN << >> ELSE <<".">> \o FracText(n % 1000))

\* the characters of chars from position i on, a backslash put before every
\* quote and backslash
RECURSIVE Escape(_, _)
Escape(chars, i) ==
    IF i > Len(chars) THEN << >>
    ELSE IF chars[i] \in {Quote, Backslash}
    THEN <<Backslash, chars[i]>> \o Escape(chars, i + 1)
    ELSE <<chars[i]>> \o Escape(chars, i + 1)

\* QuoteJSONString that writes the characters as they are
QuoteJSONStringRaw(chars) ==
    <<Quote>> \o chars \o <<Quote>>

\* JSON.stringify of a string
QuoteJSONString(chars) ==
    <<Quote>> \o Escape(chars, 1) \o <<Quote>>

\* line 260: JSON.stringify of { sku, qty: i.quantity, price, name, vendor }
ItemJson(i) ==
    <<"{">> \o QuoteJSONString(KeySku) \o <<":">> \o QuoteJSONString(i.sku)
      \o <<",">> \o QuoteJSONString(KeyQty) \o <<":">> \o NumberText(i.quantity)
      \o <<",">> \o QuoteJSONString(KeyPrice) \o <<":">> \o NumberText(i.price)
      \o <<",">> \o QuoteJSONString(KeyName) \o <<":">> \o QuoteJSONString(i.name)
      \o <<",">> \o QuoteJSONString(KeyVendor) \o <<":">> \o QuoteJSONString(i.vendor)
      \o <<"}">>

RECURSIVE JoinItems(_, _)
JoinItems(items, i) ==
    IF i = Len(items) THEN ItemJson(items[i])
    ELSE ItemJson(items[i]) \o <<",">> \o JoinItems(items, i + 1)

\* line 260: the text of metadata.items_json
ItemsJson(items) ==
    IF Len(items) = 0 THEN <<"[", "]">> ELSE <<"[">> \o JoinItems(items, 1) \o <<"]">>

\* a parse step that throws
Fail == [ok |-> FALSE, value |-> << >>, next |-> 0]

\* JSON.parse inside a string literal: the characters from position i up to
\* the closing quote, escapes undone
RECURSIVE ScanString(_, _, _)
ScanString(t, i, acc) ==
    IF i > Len(t) THEN Fail
    ELSE IF t[i] = Quote THEN [ok |-> TRUE, value |-> acc, next |-> i + 1]
    ELSE IF t[i] = Backslash
    THEN IF i + 1 <= Len(t) /\ t[i + 1] \in {Quote, Backslash, "/"}
         THEN ScanString(t, i + 2, Append(acc, t[i + 1]))
         ELSE Fail
    ELSE ScanString(t, i + 1, Append(acc, t[i]))

\* the position after the run of digits that starts at position i
DigitsEnd(t, i) ==
    CHOOSE j \in i..(Len(t) + 1) :
        /\ \A k \in i..(j - 1) : t[k] \in DOMAIN DigitVal
        /\ j <= Len(t) => t[j] \notin DOMAIN DigitVal

\* JSON.parse of a number at position i: digits without a leading zero, then
\* an optional point and up to three digits; the value in thousandths
ParseNumber(t, i) ==
    LET e == DigitsEnd(t, i)
        f == DigitsEnd(t, e + 1)
    IN IF e = i \/ (t[i] = "0" /\ e > i + 1) THEN Fail
       ELSE IF e > Len(t) \/ t[e] # "."
       THEN [ok |-> TRUE, value |-> Whole(Digits(t, i, 0, FALSE).val), next |-> e]
       ELSE IF f = e + 1 \/ f > e + 4 THEN Fail
       ELSE [ok |-> TRUE,
             value |-> Whole(Digits(t, i, 0, FALSE).val)
                         + Digits(t, e + 1, 0, FALSE).val
                             * (CASE f = e + 2 -> 100 [] f = e + 3 -> 10 [] f = e + 4 -> 1),
             next |-> f]

ParseValue(t, i) ==
    IF i > Len(t) THEN Fail
    ELSE IF t[i] = Quote THEN ScanString(t, i + 1, << >>)
    ELSE IF t[i] \in DOMAIN DigitVal THEN ParseNumber(t, i)
    ELSE Fail

\* the members of an object from the key at position i on, up to the closing
\* brace, added to acc
RECURSIVE ParseMembers(_, _, _)
ParseMembers(t, i, acc) ==
    IF i > Len(t) \/ t[i] # Quote THEN Fail
    ELSE LET k == ScanString(t, i + 1, << >>) IN
         IF ~k.ok \/ k.next > Len(t) \/ t[k.next] # ":" THEN Fail
         ELSE LET v == ParseValue(t, k.next + 1) IN
              IF ~v.ok \/ v.next > Len(t) THEN Fail
              ELSE IF t[v.next] = ","
              THEN ParseMembers(t, v.next + 1, Append(acc, [key |-> k.value, val |-> v.value]))
              ELSE IF t[v.next] = "}"
              THEN [ok |-> TRUE, value |-> Append(acc, [key |-> k.value, val |-> v.value]),
                    next |-> v.next + 1]
              ELSE Fail

ParseObject(t, i) ==
    IF i + 1 > Len(t) \/ t[i] # "{" THEN Fail
    ELSE IF t[i + 1] = "}" THEN [ok |-> TRUE, value |-> << >>, next |-> i + 2]
    ELSE ParseMembers(t, i + 1, << >>)

\* obj[key]: the last member of that name, undefined if there is none
Member(obj, key) ==
    IF \E j \in 1..Len(obj) : obj[j].key = key
    THEN obj[CHOOSE j \in 1..Len(obj) :
                /\ obj[j].key = key
                /\ \A k \in (j + 1)..Len(obj) : obj[k].key # key].val
    ELSE Undefined

\* the fields of a parsed item that line 260 writes
ItemOf(obj) ==
    [sku |-> Member(obj, KeySku), qty |-> Member(obj, KeyQty), price |-> Member(obj, KeyPrice),
     name |-> Member(obj, KeyName), vendor |-> Member(obj, KeyVendor)]

\* the elements of an array from position i on, up to the closing bracket
RECURSIVE ParseElements(_, _, _)
ParseElements(t, i, acc) ==
    LET o == ParseObject(t, i) IN
    IF ~o.ok \/ o.next > Len(t) THEN Fail
    ELSE IF t[o.next] = "," THEN ParseElements(t, o.next + 1, Append(acc, ItemOf(o.value)))
    ELSE IF t[o.next] = "]"
    THEN [ok |-> TRUE, value |-> Append(acc, ItemOf(o.value)), next |-> o.next + 1]
    ELSE Fail

\* line 324: JSON.parse(metadata.items_json); wellFormed is FALSE where it
\* throws, as it does on undefined
JsonParse(t) ==
    LET r == IF Len(t) < 2 \/ t[1] # "[" THEN Fail
             ELSE IF t[2] = "]" THEN [ok |-> TRUE, value |-> << >>, next |-> 3]
             ELSE ParseElements(t, 2, << >>)
    IN IF r.ok /\ r.next = Len(t) + 1
       THEN [wellFormed |-> TRUE, value |-> r.value]
       ELSE [wellFormed |-> FALSE, value |-> << >>]

\* req.body.items: the carts of the model
ItemA == [sku |-> <<"A", "1">>, quantity |-> Whole(2), price |-> 19995,
          name |-> <<"H", "u", "b">>, vendor |-> <<"A", "c", "m", "e">>]
ItemB == [sku |-> <<"B", "2">>, quantity |-> Whole(1), price |-> 1005,
          name |-> <<"5", Backslash, Quote>>, vendor |-> <<"B", "o", "l", "t">>]
ItemC == [sku |-> <<"C", "3">>, quantity |-> Whole(3), price |-> 70,
          name |-> <<"P", "e", "n">>, vendor |-> <<"A", "c", "m", "e">>]
Carts == {<<ItemA>>, <<ItemB, ItemA>>, <<ItemC, ItemA, ItemC>>}
Prices == {ItemA.price, ItemB.price, ItemC.price}

\* line 235 for the prices of the model, computed once
UnitAmounts == [p \in Prices |-> UnitAmount(p)]

\* lines 222-239: the line_items passed to sessions.create
LineItems(items) ==
    [i \in 1..Len(items) |->
        [name |-> items[i].name, sku |-> items[i].sku, vendor |-> items[i].vendor,
         unit_amount |-> UnitAmounts[items[i].price],
         quantity |-> items[i].quantity]]

----------------------------------------------------------------------------
(* STRIPE: createCheckoutSession and stripeWebhook *)

SessionIds == {"sess_1", "sess_2"}
Completed == "checkout.session.completed"
EventTypes == {Completed, "payment_intent.succeeded"}

\* session.metadata.items_json as it arrives in an event: text that
\* JSON.parse throws on, or the text of a cart. A session without metadata
\* makes line 312 throw inside the same try.
ItemsJsonInputs == {<<"[", "{">>, ItemsJson(<<ItemA>>)}

\* req.body.items: missing, or a list
ItemsInputs == {[present |-> FALSE, list |-> << >>],
                [present |-> TRUE, list |-> << >>],
                [present |-> TRUE, list |-> <<ItemA>>]}
CartInputs == ItemsInputs \cup {[present |-> TRUE, list |-> c] : c \in Carts}

\* line 324 for the texts of the model, computed once
ItemsOf == [t \in ItemsJsonInputs \cup {ItemsJson(i.list) : i \in CartInputs} |-> JsonParse(t)]

\* what the processor posts: the event, and whether its signature header
\* matches the raw body under STRIPE_WEBHOOK_SECRET
Events == [id : SessionIds, type : EventTypes, sigValid : BOOLEAN, items_json : ItemsJsonInputs]

Deliveries == 1..MaxDeliveries

NoEvent == [id |-> "-", type |-> "-", sigValid |-> FALSE, items_json |-> << >>]

FreeDlv == [pc |-> "free", ev |-> NoEvent, status |-> 0, verified |-> FALSE,
            writeIssued |-> FALSE, stored |-> FALSE]

\* lines 192-198
getStripe == stripeKey

\* OrderDoc with the order created in the state of a later step
OrderDocAlreadySent(ev) ==
    [stripeSessionId |-> ev.id,
     status |-> "sent_to_ingram",
     items |-> ItemsOf[ev.items_json].value,
     ingramStatus |-> "pending"]

\* lines 305-326: the document passed to collection('orders').add
OrderDoc(ev) ==
    [stripeSessionId |-> ev.id,
     status |-> "paid",
     items |-> ItemsOf[ev.items_json].value,
     ingramStatus |-> "pending"]

\* StripeWebhook that logs a failed signature check and goes on
StripeWebhookNoVerify(d, ev) ==
    LET base == [FreeDlv EXCEPT !.ev = ev] IN
    IF ~getStripe
    THEN dlv' = [dlv EXCEPT ![d] = [base EXCEPT !.pc = "done", !.status = 500]]
    ELSE IF ev.type # Completed
    THEN dlv' = [dlv EXCEPT ![d] = [base EXCEPT !.pc = "done", !.status = 200, !.verified = TRUE]]
    ELSE IF ~ItemsOf[ev.items_json].wellFormed
    THEN dlv' = [dlv EXCEPT ![d] = [base EXCEPT !.pc = "done", !.status = 500, !.verified = TRUE]]
    ELSE dlv' = [dlv EXCEPT ![d] = [base EXCEPT !.pc = "writing", !.verified = TRUE,
                                                 !.writeIssued = TRUE]]

\* StripeWebhook that writes an order for a verified event of any type
StripeWebhookNoFilter(d, ev) ==
    LET base == [FreeDlv EXCEPT !.ev = ev] IN
    IF ~getStripe
    THEN dlv' = [dlv EXCEPT ![d] = [base EXCEPT !.pc = "done", !.status = 500]]
    ELSE IF ~ev.sigValid
    THEN dlv' = [dlv EXCEPT ![d] = [base EXCEPT !.pc = "done", !.status = 400]]
    ELSE IF ~ItemsOf[ev.items_json].wellFormed
    THEN dlv' = [dlv EXCEPT ![d] = [base EXCEPT !.pc = "done", !.status = 500, !.verified = TRUE]]
    ELSE dlv' = [dlv EXCEPT ![d] = [base EXCEPT !.pc = "writing", !.verified = TRUE,
                                                 !.writeIssued = TRUE]]

\* StripeWebhook that answers 400 to a verified event of another type
StripeWebhookRejectOther(d, ev) ==
    LET base == [FreeDlv EXCEPT !.ev = ev] IN
    IF ~getStripe
    THEN dlv' = [dlv EXCEPT ![d] = [base EXCEPT !.pc = "done", !.status = 500]]
    ELSE IF ~ev.sigValid
    THEN dlv' = [dlv EXCEPT ![d] = [base EXCEPT !.pc = "done", !.status = 400]]
    ELSE IF ev.type # Completed
    THEN dlv' = [dlv EXCEPT ![d] = [base EXCEPT !.pc = "done", !.status = 400, !.verified = TRUE]]
    ELSE IF ~ItemsOf[ev.items_json].wellFormed
    THEN dlv' = [dlv EXCEPT ![d] = [base EXCEPT !.pc = "done", !.status = 500, !.verified = TRUE]]
    ELSE dlv' = [dlv EXCEPT ![d] = [base EXCEPT !.pc = "writing", !.verified = TRUE,
                                                 !.writeIssued = TRUE]]

\* lines 278-326 and 340: stripeWebhook up to its only await
StripeWebhook(d, ev) ==
    LET base == [FreeDlv EXCEPT !.ev = ev] IN
    IF ~getStripe
    THEN dlv' = [dlv EXCEPT ![d] = [base EXCEPT !.pc = "done", !.status = 500]]
    ELSE IF ~ev.sigValid
    THEN dlv' = [dlv EXCEPT ![d] = [base EXCEPT !.pc = "done", !.status = 400]]
    ELSE IF ev.type # Completed
    THEN dlv' = [dlv EXCEPT ![d] = [base EXCEPT !.pc = "done", !.status = 200, !.verified = TRUE]]
    ELSE IF ~ItemsOf[ev.items_json].wellFormed
    THEN dlv' = [dlv EXCEPT ![d] = [base EXCEPT !.pc = "done", !.status = 500, !.verified = TRUE]]
    ELSE dlv' = [dlv EXCEPT ![d] = [base EXCEPT !.pc = "writing", !.verified = TRUE,
                                                 !.writeIssued = TRUE]]

\* the processor posts an event; slots are taken in order
Deliver(d, ev) ==
    /\ dlv[d].pc = "free"
    /\ \A e \in 1..(d - 1) : dlv[e].pc # "free"
    /\ StripeWebhook(d, ev)
    /\ UNCHANGED <<gatewayVars, ingramVars, sessions, stripeKey, orders, chk, storeFailures>>

\* the processor posts again an event it got no 2xx answer for
Redeliver(d) ==
    /\ dlv[d].pc = "done"
    /\ dlv[d].status \notin {200}
    /\ StripeWebhook(d, dlv[d].ev)
    /\ UNCHANGED <<gatewayVars, ingramVars, sessions, stripeKey, orders, chk, storeFailures>>

\* lines 305-328 and 340: add() resolves
WriteOk(d) ==
    /\ dlv[d].pc = "writing"
    /\ orders' = Append(orders, OrderDoc(dlv[d].ev))
    /\ dlv' = [dlv EXCEPT ![d].pc = "done", ![d].status = 200, ![d].stored = TRUE]
    /\ UNCHANGED <<gatewayVars, ingramVars, sessions, stripeKey, chk, storeFailures>>

\* WriteErr that logs the rejected add() and still answers received
WriteErrSwallowed(d) ==
    /\ dlv[d].pc = "writing"
    /\ storeFailures < MaxStoreFailures
    /\ storeFailures' = storeFailures + 1
    /\ dlv' = [dlv EXCEPT ![d].pc = "done", ![d].status = 200]
    /\ UNCHANGED <<gatewayVars, ingramVars, sessions, stripeKey, orders, chk>>

\* lines 334-337: add() rejects
WriteErr(d) ==
    /\ dlv[d].pc = "writing"
    /\ storeFailures < MaxStoreFailures
    /\ storeFailures' = storeFailures + 1
    /\ dlv' = [dlv EXCEPT ![d].pc = "done", ![d].status = 500]
    /\ UNCHANGED <<gatewayVars, ingramVars, sessions, stripeKey, orders, chk>>

IdleChk == [pc |-> "idle", status |-> 0, sessionCalled |-> FALSE, method |-> "-",
            items |-> [present |-> FALSE, list |-> << >>],
            lineItems |-> << >>, itemsJson |-> << >>]

NoSession == [created |-> FALSE, cart |-> << >>, line_items |-> << >>, items_json |-> << >>]

\* CreateCheckoutSession that only checks that items is there
CreateCheckoutSessionNoEmptyCheck(method, items, hasCustomer) ==
    /\ chk.pc = "idle"
    /\ LET base == [IdleChk EXCEPT !.method = method, !.items = items] IN
       IF method # "POST"
       THEN chk' = [base EXCEPT !.pc = "done", !.status = 405]
       ELSE IF ~getStripe
       THEN chk' = [base EXCEPT !.pc = "done", !.status = 500]
       ELSE IF ~items.present
       THEN chk' = [base EXCEPT !.pc = "done", !.status = 400]
       ELSE IF ~hasCustomer
       THEN chk' = [base EXCEPT !.pc = "done", !.status = 500]
       ELSE chk' = [base EXCEPT !.pc = "creating", !.sessionCalled = TRUE,
                                !.lineItems = LineItems(items.list),
                                !.itemsJson = ItemsJson(items.list)]
    /\ UNCHANGED <<gatewayVars, ingramVars, sessions, stripeKey, orders, dlv, storeFailures>>

\* lines 207-263: createCheckoutSession up to its await; reading
\* customer.name of a missing customer throws into the catch of line 267
CreateCheckoutSession(method, items, hasCustomer) ==
    /\ chk.pc = "idle"
    /\ LET base == [IdleChk EXCEPT !.method = method, !.items = items] IN
       IF method # "POST"
       THEN chk' = [base EXCEPT !.pc = "done", !.status = 405]
       ELSE IF ~getStripe
       THEN chk' = [base EXCEPT !.pc = "done", !.status = 500]
       ELSE IF ~items.present \/ Len(items.list) = 0
       THEN chk' = [base EXCEPT !.pc = "done", !.status = 400]
       ELSE IF ~hasCustomer
       THEN chk' = [base EXCEPT !.pc = "done", !.status = 500]
       ELSE chk' = [base EXCEPT !.pc = "creating", !.sessionCalled = TRUE,
                                !.lineItems = LineItems(items.list),
                                !.itemsJson = ItemsJson(items.list)]
    /\ UNCHANGED <<gatewayVars, ingramVars, sessions, stripeKey, orders, dlv, storeFailures>>

\* the id the processor gives the next session
NextSessionId == IF ~sessions["sess_1"].created THEN "sess_1" ELSE "sess_2"

\* line 265: sessions.create resolves; the processor keeps the session with
\* its line items and metadata (and, for reference, the cart it came from)
SessionOk ==
    /\ chk.pc = "creating"
    /\ ~sessions[NextSessionId].created
    /\ sessions' = [sessions EXCEPT ![NextSessionId] =
                        [created |-> TRUE, cart |-> chk.items.list,
                         line_items |-> chk.lineItems, items_json |-> chk.itemsJson]]
    /\ chk' = [chk EXCEPT !.pc = "done", !.status = 200]
    /\ UNCHANGED <<gatewayVars, ingramVars, stripeKey, orders, dlv, storeFailures>>

\* lines 267-270: sessions.create rejects
SessionErr ==
    /\ chk.pc = "creating"
    /\ chk' = [chk EXCEPT !.pc = "done", !.status = 500]
    /\ UNCHANGED <<gatewayVars, ingramVars, sessions, stripeKey, orders, dlv, storeFailures>>

\* the customer pays: the processor posts the signed completion event of a
\* session, with the metadata the session was created with
CompleteSession(d, id) ==
    /\ sessions[id].created
    /\ Deliver(d, [id |-> id, type |-> Completed, sigValid |-> TRUE,
                   items_json |-> sessions[id].items_json])

\* the response has been sent; the next checkout request may arrive
CheckoutRespond ==
    /\ chk.pc = "done"
    /\ chk' = IdleChk
    /\ UNCHANGED <<gatewayVars, ingramVars, sessions, stripeKey, orders, dlv, storeFailures>>

----------------------------------------------------------------------------
(* INGRAM: ingramWebhook *)

Hooks == 1..MaxHooks

\* line 166 on the x-hub-signature / authorization header: there is none;
\* IM_SECRET_KEY is not set or the header contains it; or IM_SECRET_KEY is
\* set and the header does not contain it
Signatures == {"none", "match", "mismatch"}

\* req.body: the two fields the handler reads
IngramBodies == [topic : {Undefined, "OrderStatus"}, eventType : {Undefined, "StockUpdate"}]

NoBody == [topic |-> Undefined, eventType |-> Undefined]

FreeHook == [pc |-> "free", method |-> "-", sig |-> "none", event |-> NoBody,
             warned |-> FALSE, writeIssued |-> FALSE, stored |-> FALSE, status |-> 0]

\* lines 175-179: the document passed to collection('ingram_events').add
IngramDoc(event) ==
    [eventType |-> IF event.topic # Undefined THEN event.topic
                   ELSE IF event.eventType # Undefined THEN event.eventType
                   ELSE "unknown",
     rawPayload |-> event]

PendingHookWrites == {h \in Hooks : hook[h].pc = "writing"}

\* IngramWebhook that turns away a request whose signature does not match
IngramWebhookRejects(h, method, sig, event) ==
    /\ hook[h].pc = "free"
    /\ \A g \in 1..(h - 1) : hook[g].pc # "free"
    /\ Len(ingramEvents) + Cardinality(PendingHookWrites) < MaxIngramEvents
    /\ IF method # "POST"
       THEN hook' = [hook EXCEPT ![h] = [FreeHook EXCEPT !.pc = "done", !.method = method,
                                                          !.status = 405]]
       ELSE IF sig = "mismatch"
       THEN hook' = [hook EXCEPT ![h] = [FreeHook EXCEPT !.pc = "done", !.method = method,
                                                          !.sig = sig, !.warned = TRUE,
                                                          !.status = 401]]
       ELSE hook' = [hook EXCEPT ![h] = [FreeHook EXCEPT !.pc = "writing", !.method = method,
                                                          !.sig = sig, !.event = event,
                                                          !.writeIssued = TRUE]]
    /\ UNCHANGED <<gatewayVars, paymentVars, ingramEvents>>

\* lines 162-179: ingramWebhook up to its await; slots are taken in order
\* and the collection is kept within MaxIngramEvents documents
IngramWebhook(h, method, sig, event) ==
    /\ hook[h].pc = "free"
    /\ \A g \in 1..(h - 1) : hook[g].pc # "free"
    /\ Len(ingramEvents) + Cardinality(PendingHookWrites) < MaxIngramEvents
    /\ IF method # "POST"
       THEN hook' = [hook EXCEPT ![h] = [FreeHook EXCEPT !.pc = "done", !.method = method,
                                                          !.status = 405]]
       ELSE hook' = [hook EXCEPT ![h] = [FreeHook EXCEPT !.pc = "writing", !.method = method,
                                                          !.sig = sig, !.event = event,
                                                          !.warned = (sig = "mismatch"),
                                                          !.writeIssued = TRUE]]
    /\ UNCHANGED <<gatewayVars, paymentVars, ingramEvents>>

\* lines 175-181: add() resolves; the request is over and its body gone
IngramWriteOk(h) ==
    /\ hook[h].pc = "writing"
    /\ ingramEvents' = Append(ingramEvents, IngramDoc(hook[h].event))
    /\ hook' = [hook EXCEPT ![h].pc = "done", ![h].status = 200, ![h].stored = TRUE,
                            ![h].event = NoBody]
    /\ UNCHANGED <<gatewayVars, paymentVars>>

\* lines 182-185: add() rejects
IngramWriteErr(h) ==
    /\ hook[h].pc = "writing"
    /\ hook' = [hook EXCEPT ![h].pc = "done", ![h].status = 500, ![h].event = NoBody]
    /\ UNCHANGED <<gatewayVars, paymentVars, ingramEvents>>

\* the response has been sent; the slot serves the next request
HookRespond(h) ==
    /\ hook[h].pc = "done"
    /\ hook' = [hook EXCEPT ![h] = FreeHook]
    /\ UNCHANGED <<gatewayVars, paymentVars, ingramEvents>>

\* lines 8-19: a fresh function instance; STRIPE_SECRET_KEY is set or not
Init ==
    /\ now = 0
    /\ cachedToken = NoToken
    /\ tokenExpiry = 0
    /\ tokenDeadline = 0
    /\ req = [r \in Requests |-> IdleReq]
    /\ stripeKey \in BOOLEAN
    /\ orders = << >>
    /\ dlv = [d \in Deliveries |-> FreeDlv]
    /\ chk = IdleChk
    /\ storeFailures = 0
    /\ sessions = [id \in SessionIds |-> NoSession]
    /\ ingramEvents = << >>
    /\ hook = [h \in Hooks |-> FreeHook]

----------------------------------------------------------------------------
(* Specifications *)

GatewayNext ==
    \/ \E r \in Requests, m \in Methods, s \in SkusInputs : PriceAndAvailability(r, m, s)
    \/ \E r \in Requests, tok \in Tokens, w \in ValidityWindows : ExchangeOk(r, tok, w)
    \/ \E r \in Requests : ExchangeErr(r)
    \/ \E r \in Requests : DistOk(r)
    \/ \E r \in Requests : DistErr(r)
    \/ \E r \in Requests : Respond(r)
    \/ Tick

PaymentNext ==
    \/ \E d \in Deliveries, ev \in Events : Deliver(d, ev)
    \/ \E d \in Deliveries : Redeliver(d)
    \/ \E d \in Deliveries : WriteOk(d)
    \/ \E d \in Deliveries : WriteErr(d)
    \/ \E m \in Methods, i \in ItemsInputs, c \in BOOLEAN : CreateCheckoutSession(m, i, c)
    \/ SessionOk
    \/ SessionErr
    \/ CheckoutRespond

\* getPriceAndAvailability with every request body; the clock and the token
\* value play no part in validation, so time stands still and the exchange
\* returns one token
ValidationNext ==
    \/ \E r \in Requests, m \in Methods, s \in SkusInputs : PriceAndAvailability(r, m, s)
    \/ \E r \in Requests : ExchangeOk(r, "tokA", AssumedLifetimeMs)
    \/ \E r \in Requests : ExchangeErr(r)
    \/ \E r \in Requests : DistOk(r)
    \/ \E r \in Requests : DistErr(r)
    \/ \E r \in Requests : Respond(r)

ValidationSpec == Init /\ [][ValidationNext]_vars

CheckoutNext ==
    \/ \E m \in Methods, i \in CartInputs, c \in BOOLEAN : CreateCheckoutSession(m, i, c)
    \/ SessionOk
    \/ SessionErr
    \/ CheckoutRespond
    \/ \E d \in Deliveries, id \in SessionIds : CompleteSession(d, id)
    \/ \E d \in Deliveries : Redeliver(d)
    \/ \E d \in Deliveries : WriteOk(d)
    \/ \E d \in Deliveries : WriteErr(d)

\* a cart from checkout to its order
CheckoutSpec == Init /\ [][CheckoutNext]_vars

IngramNext ==
    \/ \E h \in Hooks, m \in Methods, g \in Signatures, e \in IngramBodies :
          IngramWebhook(h, m, g, e)
    \/ \E h \in Hooks : IngramWriteOk(h)
    \/ \E h \in Hooks : IngramWriteErr(h)
    \/ \E h \in Hooks : HookRespond(h)

\* the distributor event webhook
IngramSpec == Init /\ [][IngramNext]_vars

SearchNext ==
    \/ \E r \in Requests, m \in Methods, q \in Queries : SearchProducts(r, m, q)
    \/ \E r \in Requests, tok \in Tokens, w \in ValidityWindows : ExchangeOk(r, tok, w)
    \/ \E r \in Requests : ExchangeErr(r)
    \/ \E r \in Requests : DistOk(r)
    \/ \E r \in Requests : DistErr(r)
    \/ \E r \in Requests : Respond(r)
    \/ Tick

\* both handlers of the gateway side by side, each with one well-formed input
CatalogNext ==
    \/ \E r \in Requests, m \in Methods : SearchProducts(r, m, DefaultQuery)
    \/ \E r \in Requests, m \in Methods :
          PriceAndAvailability(r, m, [isArray |-> TRUE, items |-> <<"SKU">>])
    \/ \E r \in Requests, tok \in Tokens, w \in ValidityWindows : ExchangeOk(r, tok, w)
    \/ \E r \in Requests : ExchangeErr(r)
    \/ \E r \in Requests : DistOk(r)
    \/ \E r \in Requests : DistErr(r)
    \/ \E r \in Requests : Respond(r)
    \/ Tick

\* searchProducts with its paging inputs
SearchSpec == Init /\ [][SearchNext]_vars

\* searchProducts and getPriceAndAvailability sharing the token cache
CatalogSpec == Init /\ [][CatalogNext]_vars

\* the distributor gateway and its token cache
GatewaySpec ==
    Init /\ [][GatewayNext]_vars

\* checkout and the payment webhook
PaymentSpec ==
    Init /\ [][PaymentNext]_vars

WebhookNext ==
    \/ \E d \in Deliveries, ev \in Events : Deliver(d, ev)
    \/ \E d \in Deliveries : Redeliver(d)
    \/ \E d \in Deliveries : WriteOk(d)
    \/ \E d \in Deliveries : WriteErr(d)

\* the payment webhook alone, with the processor's redelivery and a store
\* that answers every write: an event that got no 2xx answer is posted
\* again, a pending add() settles, and at most MaxStoreFailures writes fail
PaymentLive ==
    /\ Init /\ [][WebhookNext]_vars
    /\ \A d \in Deliveries : WF_vars(Redeliver(d))
    /\ \A d \in Deliveries : WF_vars(WriteOk(d) \/ WriteErr(d))

----------------------------------------------------------------------------
(* Properties of the token cache and the gateway (GatewaySpec) *)

InFlightExchanges == {r \in Requests : req[r].pc = "token"}

\* C1: while no valid token is cached, concurrent getAccessToken calls share
\* one credential exchange: at most one getAccesstoken call is in flight.
C1_SingleFlightExchange == Cardinality(InFlightExchanges) <= 1

\* a request has just reached getAccessToken in this step
CalledGetAccessToken(r) == req[r].pc = "idle" /\ req'[r].pc \in {"token", "dist"}

\* C7: a call that observes now >= tokenExpiry, or no cached token, is not
\* answered from the cache but issues a credential exchange; a call answered
\* from the cache observed a cached token and now < tokenExpiry.
C7_NeverServesExpired ==
    [][\A r \in Requests : CalledGetAccessToken(r) =>
        IF cachedToken = NoToken \/ now >= tokenExpiry
        THEN /\ req'[r].pc = "token"
             /\ req'[r].exchanged
             /\ ~req'[r].fromCache
             /\ req'[r].token = NoToken
        ELSE /\ req'[r].fromCache
             /\ req'[r].token = cachedToken]_vars

\* C7 witness: a token is cached, the clock has reached its expiry, and a
\* call made now issued an exchange
C7_Witness ==
    /\ cachedToken # NoToken
    /\ now >= tokenExpiry
    /\ \E r \in Requests : req[r].pc = "token"

C15_ValidTokenReused ==
    [][\A r \in Requests :
        (CalledGetAccessToken(r) /\ cachedToken # NoToken /\ now < tokenExpiry) =>
            /\ req'[r].pc = "dist"
            /\ req'[r].fromCache
            /\ ~req'[r].exchanged
            /\ req'[r].token = cachedToken
            /\ InFlightExchanges' = InFlightExchanges
            /\ cachedToken' = cachedToken
            /\ tokenExpiry' = tokenExpiry]_vars

\* C15 witness: inside the validity window two requests were both answered
\* from the cache and no exchange is in flight
C15_Witness ==
    /\ cachedToken # NoToken
    /\ now < tokenExpiry
    /\ now > 0
    /\ InFlightExchanges = {}
    /\ \E r1, r2 \in Requests :
          /\ r1 # r2
          /\ \A r \in {r1, r2} :
                req[r].pc = "dist" /\ req[r].fromCache /\ req[r].token = cachedToken

\* C16: the stored expiry is the completion time of the exchange plus the
\* validity window the upstream declared minus the safety margin.
C16_ExpiryFromDeclaredWindow ==
    cachedToken # NoToken => tokenExpiry = tokenDeadline - SafetyMarginMs

C17_TokenBeforeDistributorCall ==
    /\ [](\A r \in Requests :
            /\ req[r].pc = "token" => (req[r].exchanged /\ ~req[r].distCalled)
            /\ req[r].pc = "dist" => req[r].token \in Tokens
            /\ req[r].distCalled => (req[r].fromCache \/ req[r].exchanged)
            /\ (req[r].pc = "done" /\ req[r].exchanged /\ ~req[r].distCalled)
                  => req[r].status = 500)
    /\ [][\A r \in Requests :
            /\ (~req[r].distCalled /\ req'[r].distCalled) =>
                  /\ req'[r].token \in Tokens
                  /\ \/ req[r].pc = "idle" /\ req'[r].token = cachedToken
                     \/ req[r].pc = "token" /\ req'[r].token = cachedToken'
            /\ (req[r].pc = "token" /\ req'[r].pc = "done") =>
                  (req'[r].status = 500 /\ ~req'[r].distCalled)]_vars

\* C17 witness: a search request ended 500 after its exchange failed, with
\* no distributor call, while a price request holds a token and has its
\* distributor call out
C17_Witness ==
    \E r1, r2 \in Requests :
        /\ req[r1].kind = "search" /\ req[r1].pc = "done" /\ req[r1].exchanged
        /\ ~req[r1].distCalled /\ req[r1].status = 500
        /\ req[r2].kind = "pa" /\ req[r2].pc = "dist" /\ req[r2].token \in Tokens

\* C18: the paging options of every search sent upstream have pageSize in
\* 1..100 and pageNumber >= 1, the defaults 24 and 1 for an absent or
\* non-numeric parameter, and 100 for a pageSize above 100.
C18_PagingWithinBounds ==
    \A r \in Requests : (req[r].kind = "search" /\ req[r].distCalled) =>
        /\ req[r].opts.pageSize \in 1..100
        /\ req[r].opts.pageNumber >= 1
        /\ ParseInt(req[r].query.pageSize).nan => req[r].opts.pageSize = 24
        /\ ParseInt(req[r].query.pageNumber).nan => req[r].opts.pageNumber = 1
        /\ (~ParseInt(req[r].query.pageSize).nan /\ ParseInt(req[r].query.pageSize).val > 100)
              => req[r].opts.pageSize = 100

SkusRejected(skus) == ~skus.isArray \/ Len(skus.items) = 0 \/ Len(skus.items) > 50

\* C9 as stated: every request with a bad skus input is answered 400 and
\* makes no upstream call.
C9_BadSkusAlways400 ==
    \A r \in Requests : (req[r].pc # "idle" /\ SkusRejected(req[r].skus)) =>
        /\ req[r].pc = "done"
        /\ req[r].status = 400
        /\ ~req[r].exchanged
        /\ ~req[r].distCalled

\* C9 amended: a POST request with a bad skus input is answered 400, any
\* other method is answered 405 first; neither makes an upstream call.
C9_BadSkusRejected ==
    \A r \in Requests : (req[r].pc # "idle" /\ SkusRejected(req[r].skus)) =>
        /\ req[r].pc = "done"
        /\ req[r].status = (IF req[r].method = "POST" THEN 400 ELSE 405)
        /\ ~req[r].exchanged
        /\ ~req[r].distCalled
        /\ req[r].token = NoToken

\* C9 witness: a POST with 51 skus has been rejected
C9_Witness ==
    \E r \in Requests :
        /\ req[r].method = "POST"
        /\ req[r].skus.isArray
        /\ Len(req[r].skus.items) = 51
        /\ req[r].status = 400

----------------------------------------------------------------------------
(* Properties of the payment webhook (PaymentSpec, PaymentLive) *)

OrdersFor(s) == {i \in DOMAIN orders : orders[i].stripeSessionId = s}

\* deliveries of a verified completion event for session s
CompletionsOf(s) ==
    {d \in Deliveries : /\ dlv[d].pc # "free"
                        /\ dlv[d].verified
                        /\ dlv[d].ev.type = Completed
                        /\ dlv[d].ev.id = s}

\* C2: once the K >= 1 verified completion events of a session have all been
\* handled and stored, the collection holds exactly one order of that
\* session and every delivery was answered 200.
C2_OneOrderPerSession ==
    \A s \in SessionIds :
        (CompletionsOf(s) # {} /\ \A d \in CompletionsOf(s) : dlv[d].stored) =>
            /\ Cardinality(OrdersFor(s)) = 1
            /\ \A d \in CompletionsOf(s) : dlv[d].status = 200

\* delivery d was handled to its end by this step
Answered(d) == dlv'[d].pc = "done" /\ dlv'[d] # dlv[d]

\* C3 as stated: an event whose signature does not verify is answered 400
\* and nothing is written.
C3_BadSignature400 ==
    \A d \in Deliveries : (dlv[d].pc # "free" /\ ~dlv[d].ev.sigValid) =>
        /\ dlv[d].pc = "done"
        /\ dlv[d].status = 400
        /\ ~dlv[d].writeIssued

\* C3 amended: an event whose signature does not verify is answered 400 when
\* the Stripe key is configured and 500 when it is not; in both cases no
\* write is issued and the orders collection is unchanged by the delivery.
C3_BadSignatureRejected ==
    [][\A d \in Deliveries : (dlv'[d] # dlv[d] /\ ~dlv'[d].ev.sigValid) =>
        /\ dlv'[d].pc = "done"
        /\ dlv'[d].status = (IF stripeKey THEN 400 ELSE 500)
        /\ ~dlv'[d].writeIssued
        /\ ~dlv'[d].stored
        /\ orders' = orders]_vars

\* C3 witness: a completion event with well-formed metadata and a bad
\* signature was answered 400
C3_Witness ==
    \E d \in Deliveries :
        /\ dlv[d].pc = "done"
        /\ ~dlv[d].ev.sigValid
        /\ dlv[d].ev.type = Completed
        /\ ItemsOf[dlv[d].ev.items_json].wellFormed
        /\ dlv[d].status = 400
        /\ orders = << >>

\* C4: every order was written by a delivery of a signature-verified
\* checkout.session.completed event; no step of createCheckoutSession
\* changes the collection, and a verified event of another type is answered
\* 200 without a write.
C4_OrdersOnlyFromVerifiedCompletion ==
    /\ [](/\ \A i \in DOMAIN orders : \E d \in Deliveries :
                /\ dlv[d].stored
                /\ dlv[d].ev.sigValid
                /\ dlv[d].ev.type = Completed
                /\ dlv[d].ev.id = orders[i].stripeSessionId
          /\ Len(orders) = Cardinality({d \in Deliveries : dlv[d].stored})
          /\ \A d \in Deliveries :
                (dlv[d].pc # "free" /\ stripeKey /\ dlv[d].ev.sigValid /\ dlv[d].ev.type # Completed)
                    => (dlv[d].pc = "done" /\ dlv[d].status = 200 /\ ~dlv[d].writeIssued))
    /\ [][chk' # chk => orders' = orders]_vars

\* C4 witness: a checkout session was created, a verified event of another
\* type was acknowledged, and one order exists
C4_Witness ==
    /\ chk.status = 200
    /\ Len(orders) = 1
    /\ \E d \in Deliveries :
          dlv[d].ev.sigValid /\ dlv[d].ev.type # Completed /\ dlv[d].status = 200

\* C5 as stated: a non-success answer is a 400 after a failed signature
\* check or a 500 after a failed order write.
C5_OnlyTwoFailures ==
    \A d \in Deliveries : (dlv[d].pc = "done" /\ dlv[d].status # 200) =>
        \/ dlv[d].status = 400 /\ ~dlv[d].ev.sigValid
        \/ dlv[d].status = 500 /\ dlv[d].writeIssued /\ ~dlv[d].stored

\* C5 amended: the answer is 500 when the Stripe key is not configured, 400
\* when the signature fails, 200 for a verified event of another type, 500
\* when a verified completion event's items_json does not parse or its
\* order write fails, and 200 when its order is persisted.
C5_ResponseTable ==
    \A d \in Deliveries : dlv[d].pc = "done" =>
        dlv[d].status =
            IF ~stripeKey THEN 500
            ELSE IF ~dlv[d].ev.sigValid THEN 400
            ELSE IF dlv[d].ev.type # Completed THEN 200
            ELSE IF ~ItemsOf[dlv[d].ev.items_json].wellFormed THEN 500
            ELSE IF dlv[d].stored THEN 200
            ELSE 500

\* C5 witness: one completion event was persisted and answered 200 and
\* another was answered 500 after its write failed
C5_Witness ==
    \E d1, d2 \in Deliveries :
        /\ dlv[d1].pc = "done" /\ dlv[d1].stored /\ dlv[d1].status = 200
        /\ dlv[d2].pc = "done" /\ dlv[d2].writeIssued /\ ~dlv[d2].stored /\ dlv[d2].status = 500

\* the order write of delivery d failed and d has been answered
WriteFailed(d) == dlv[d].pc = "done" /\ dlv[d].writeIssued /\ ~dlv[d].stored

\* C6: a failed order write is answered 500 and adds no order; with
\* redelivery until success and a store that eventually accepts writes, the
\* session eventually has an order and a delivery answered 200.
C6_RetryEventuallyStores ==
    /\ [][\A d \in Deliveries :
            (dlv[d].pc = "writing" /\ dlv'[d].pc = "done" /\ ~dlv'[d].stored)
                => (dlv'[d].status = 500 /\ orders' = orders)]_vars
    /\ \A d \in Deliveries : \A s \in SessionIds :
            (WriteFailed(d) /\ dlv[d].ev.id = s)
                ~> (/\ OrdersFor(s) # {}
                    /\ \E e \in Deliveries :
                          dlv[e].pc = "done" /\ dlv[e].status = 200 /\ dlv[e].ev.id = s
                          /\ dlv[e].stored)

\* C6 witness: after two failed writes the delivery was made again and the
\* order is stored
C6_Witness ==
    /\ storeFailures = 2
    /\ \E d \in Deliveries : dlv[d].stored /\ dlv[d].status = 200
    /\ Len(orders) = 1

\* C10: every order document has status paid and ingramStatus pending, and
\* no step changes or removes a document that is in the collection.
C10_OrderInitialState ==
    /\ [](\A i \in DOMAIN orders :
              orders[i].status = "paid" /\ orders[i].ingramStatus = "pending")
    /\ [][/\ Len(orders') >= Len(orders)
          /\ \A i \in DOMAIN orders : orders'[i] = orders[i]]_vars

\* C10 witness: an order is in the collection while another delivery's
\* write is pending
C10_Witness ==
    /\ Len(orders) = 1
    /\ orders[1].status = "paid"
    /\ \E d \in Deliveries : dlv[d].pc = "writing"

----------------------------------------------------------------------------
(* Properties of the distributor event webhook (IngramSpec) *)

\* C14: a POST to ingramWebhook always gets its event written, whatever the
\* signature header: the document appended depends on the body only, and the
\* answer is 200 when the write succeeds and 500 when it fails.
C14_MismatchNeverRejected ==
    /\ [](\A h \in Hooks : (hook[h].pc # "free" /\ hook[h].method = "POST") =>
            /\ hook[h].writeIssued
            /\ hook[h].pc = "done" => hook[h].status = (IF hook[h].stored THEN 200 ELSE 500))
    /\ [][\A h \in Hooks : (hook[h].pc = "writing" /\ hook'[h].pc = "done") =>
            IF hook'[h].stored
            THEN ingramEvents' = Append(ingramEvents,
                    [eventType |-> IF hook[h].event.topic # Undefined
                                   THEN hook[h].event.topic
                                   ELSE IF hook[h].event.eventType # Undefined
                                   THEN hook[h].event.eventType
                                   ELSE "unknown",
                     rawPayload |-> hook[h].event])
            ELSE ingramEvents' = ingramEvents]_vars

\* C14 witness: an event whose signature does not match the configured
\* secret and one whose signature matches were both stored and answered
\* 200, and the two stored documents are the same
C14_Witness ==
    /\ \E h1, h2 \in Hooks :
          /\ hook[h1].sig = "mismatch" /\ hook[h1].warned
          /\ hook[h1].stored /\ hook[h1].status = 200
          /\ hook[h2].sig = "match" /\ hook[h2].stored /\ hook[h2].status = 200
    /\ Len(ingramEvents) = 2
    /\ ingramEvents[1] = ingramEvents[2]
    /\ ingramEvents[1].eventType = "OrderStatus"

----------------------------------------------------------------------------
(* Properties of checkout (CheckoutSpec) *)

EmptyItems(items) == ~items.present \/ Len(items.list) = 0

\* C13 as stated: every createCheckoutSession request whose items are
\* missing or empty is answered 400 and makes no session-creation call.
C13_EmptyCartAlways400 ==
    (chk.pc # "idle" /\ EmptyItems(chk.items)) =>
        (chk.pc = "done" /\ chk.status = 400 /\ ~chk.sessionCalled)

\* C13 amended: a request whose items are missing or empty never makes a
\* session-creation call; it is answered 405 when its method is not POST,
\* 500 when the Stripe key is not configured, and 400 otherwise.
C13_EmptyCartRejected ==
    (chk.pc # "idle" /\ EmptyItems(chk.items)) =>
        /\ chk.pc = "done"
        /\ ~chk.sessionCalled
        /\ chk.status = (IF chk.method # "POST" THEN 405
                         ELSE IF ~stripeKey THEN 500
                         ELSE 400)

\* C13 witness: a POST with an empty items list, the Stripe key configured,
\* was answered 400 without a session-creation call
C13_Witness ==
    /\ stripeKey
    /\ chk.pc = "done"
    /\ chk.method = "POST"
    /\ chk.items = [present |-> TRUE, list |-> << >>]
    /\ chk.status = 400
    /\ ~chk.sessionCalled

\* C12: a created session has one line item per cart item, in cart order,
\* with the cart item's quantity and with the unit price times 100 rounded
\* to the nearest cent (halves up: 19.995 gives 2000) as its unit amount.
C12_UnitAmountNearestCent ==
    \A id \in SessionIds : sessions[id].created =>
        /\ Len(sessions[id].line_items) = Len(sessions[id].cart)
        /\ \A i \in 1..Len(sessions[id].cart) :
              /\ sessions[id].line_items[i].quantity = sessions[id].cart[i].quantity
              /\ sessions[id].line_items[i].sku = sessions[id].cart[i].sku
              /\ sessions[id].line_items[i].unit_amount
                    = (sessions[id].cart[i].price + 5) \div 10

\* C11: the items of every order are the cart of its session: same length,
\* same order, and each item's sku, quantity, unit price, name and vendor
\* unchanged by the trip through metadata.items_json.
C11_ItemsRoundTrip ==
    \A k \in 1..Len(orders) :
        /\ orders[k].stripeSessionId \in SessionIds
        /\ sessions[orders[k].stripeSessionId].created
        /\ Len(orders[k].items) = Len(sessions[orders[k].stripeSessionId].cart)
        /\ \A i \in 1..Len(orders[k].items) :
              /\ orders[k].items[i].sku = sessions[orders[k].stripeSessionId].cart[i].sku
              /\ orders[k].items[i].qty = sessions[orders[k].stripeSessionId].cart[i].quantity
              /\ orders[k].items[i].price = sessions[orders[k].stripeSessionId].cart[i].price
              /\ orders[k].items[i].name = sessions[orders[k].stripeSessionId].cart[i].name
              /\ orders[k].items[i].vendor = sessions[orders[k].stripeSessionId].cart[i].vendor

\* C11 witness: an order holds a two-item cart whose first item has a quote
\* and a backslash in its name and a price with three decimals
C11_Witness ==
    \E k \in 1..Len(orders) :
        /\ Len(orders[k].items) = 2
        /\ orders[k].items[1].name = <<"5", Backslash, Quote>>
        /\ orders[k].items[1].price = 1005
        /\ orders[k].items[2].sku = <<"A", "1">>
        /\ orders[k].items[2].qty = Whole(2)

====
